---------------------------- MODULE Spec2Model ----------------------------
(***************************************************************************)
(* Model of BingMapsProvider (source/providers/BingMapsProvider.ts):       *)
(*   - the static quadKey(zoom, x, y) conversion, its loop run step by     *)
(*     step on bounded inputs (specification SpecQuadKey);                 *)
(*   - fetchTile(zoom, x, y): the image element it creates, the URL it     *)
(*     requests, the image's load/error events and the cancelable handle   *)
(*     it returns (specification Spec).                                    *)
(*                                                                         *)
(* Numbers that take part in the bitwise operations of quadKey are kept as *)
(* the set of their set bit positions: x = {0, 3} is the number 2^0 + 2^3. *)
(* ECMAScript's << and & work on 32-bit words, so the width is modelled:   *)
(* the shift count is taken modulo 32 and the operands of & are truncated  *)
(* to their low 32 bits.                                                   *)
(*                                                                         *)
(* Strings are sequences of tokens: a quadkey is a sequence of one-digit   *)
(* strings, a URL the sequence of the pieces the code concatenates.        *)
(***************************************************************************)
EXTENDS Integers, Sequences, FiniteSets

VARIABLES
    zoom, x, y,     \* quadKey: the arguments of the call under way
    i, quad,        \* quadKey: the loop counter and the string built so far
    pc,             \* quadKey: "loop" while the for loop runs, "done" on return
    type,           \* provider: this.type
    format,         \* provider: this.format
    subdomain,      \* provider: this.subdomain
    handles         \* fetchTile: one record per call made, by call number

qvars == <<zoom, x, y, i, quad, pc>>
pvars == <<type, format, subdomain>>
vars == <<zoom, x, y, i, quad, pc, type, format, subdomain, handles>>

(***************************************************************************)
(* Bounds of the model.                                                    *)
(***************************************************************************)
\* quadKey is run for every zoom in 0..MaxZoom.
MaxZoom == 33
\* Number of fetchTile calls in one behaviour.
MaxFetches == 2
\* The bit positions the coordinates given to quadKey may have set.
ProbeBits == {0, 1, 30, 31, 32}

(***************************************************************************)
(* 32-bit integer operations of ECMAScript, on bit-position sets.          *)
(***************************************************************************)
\* Width of the operands of << and &.
WordBits == 32

\* ToInt32(v): the low 32 bits of v.
ToInt32(v) == v \cap (0 .. WordBits - 1)

\* 1 << n: the shift count is masked to 5 bits; the result has one bit set.
ShiftLeftOne(n) == {n % WordBits}

\* (a & b) !== 0
BitAndNonZero(a, b) == (ToInt32(a) \cap ToInt32(b)) # {}

\* Number-to-string conversion of `quad += cell`.
NumberToString(n) == <<"0", "1", "2", "3", "4", "5", "6", "7", "8", "9">>[n + 1]

(***************************************************************************)
(* BingMapsProvider.quadKey                                                *)
(***************************************************************************)
\* const mask = 1 << i - 1   (the mutant shifts by i: off by one)
mask_shift_i(k) == ShiftLeftOne(k)
mask(k) == ShiftLeftOne(k - 1)

\* The body of the for loop up to `quad += cell`: the cell of iteration k.
\* (the mutant adds 1, not 2, for y's bit)
cell_y_adds_one(k, cx, cy) ==
    (IF BitAndNonZero(cx, mask(k)) THEN 1 ELSE 0)
      + (IF BitAndNonZero(cy, mask(k)) THEN 1 ELSE 0)
cell(k, cx, cy) ==
    (IF BitAndNonZero(cx, mask(k)) THEN 1 ELSE 0)
      + (IF BitAndNonZero(cy, mask(k)) THEN 2 ELSE 0)

\* The loop condition `i > 0`   (the mutant runs the loop once more)
loopCond_ge(k) == k >= 0
loopCond(k) == k > 0

\* The for loop from counter k on, with q the string built so far.
RECURSIVE quadLoop(_, _, _, _)
quadLoop(k, cx, cy, q) ==
    IF loopCond(k)
    THEN quadLoop(k - 1, cx, cy, q \o <<NumberToString(cell(k, cx, cy))>>)
    ELSE q

\* quadKey(zoom, x, y) as one call.
quadKey(z, cx, cy) == quadLoop(z, cx, cy, <<>>)

\* The coordinates quadKey is run on at zoom z: 0 <= x, y < 2^z.
Coords(z) == SUBSET (ProbeBits \cap (0 .. z - 1))

\* Entry of quadKey: `let quad = ''` and the loop initialisation `i = zoom`.
QuadKeyInit ==
    /\ zoom \in 0 .. MaxZoom
    /\ x \in Coords(zoom)
    /\ y \in Coords(zoom)
    /\ i = zoom
    /\ quad = <<>>
    /\ pc = "loop"

\* One iteration of the for loop.
LoopStep ==
    /\ pc = "loop"
    /\ loopCond(i)
    /\ quad' = quad \o <<NumberToString(cell(i, x, y))>>
    /\ i' = i - 1
    /\ UNCHANGED <<zoom, x, y, pc, pvars, handles>>

\* The loop condition fails: `return quad`.
LoopExit ==
    /\ pc = "loop"
    /\ ~loopCond(i)
    /\ pc' = "done"
    /\ UNCHANGED <<zoom, x, y, i, quad, pvars, handles>>

(***************************************************************************)
(* The provider object                                                     *)
(***************************************************************************)
\* The static view-type constants AERIAL, ROAD, AERIAL_LABELS, OBLIQUE,
\* OBLIQUE_LABELS.
AERIAL == "a"
ROAD == "r"
AERIAL_LABELS == "h"
OBLIQUE == "o"
OBLIQUE_LABELS == "b"
ViewTypes == {AERIAL, ROAD, AERIAL_LABELS, OBLIQUE, OBLIQUE_LABELS}

\* The image formats the documentation of the format field lists.
Formats == {"gif", "jpeg", "png"}

\* The values given to the subdomain field.
Subdomains == {"t0", "t1"}

\* The tile addresses fetchTile is called with: <<zoom, x, y>>.
FetchTiles == {<<0, {}, {}>>, <<1, {0}, {}>>, <<2, {1}, {0, 1}>>}

\* The type arguments the constructor is called with.
ConstructorArgs == {"undefined", ROAD}

\* The constructor: `this.type = type !== undefined ? type : AERIAL`, with
\* the field initialisers format = 'jpeg' and subdomain = 't1'.
constructor(t) ==
    /\ type = (IF t = "undefined" THEN AERIAL ELSE t)
    /\ format = "jpeg"
    /\ subdomain = "t1"

(***************************************************************************)
(* The cancelable handle (CancelablePromise, source/utils): a promise with *)
(* the states pending, resolved, rejected and canceled, settled at most    *)
(* once.  p is the record of one fetchTile call.                           *)
(***************************************************************************)
Handles == 1 .. MaxFetches

NoHandle ==
    [created |-> FALSE, tile |-> <<0, {}, {}>>, image |-> [src |-> <<>>, crossOrigin |-> ""],
     transport |-> "none", loads |-> 0, abortHook |-> "none",
     state |-> "none", value |-> 0, okCalls |-> 0, failCalls |-> 0,
     cancelledEarly |-> FALSE]

\* resolve(v): settles a pending handle and runs its success continuation.
\* (the mutant settles whatever the state)
resolve_unguarded(p, v) ==
    [p EXCEPT !.state = "resolved", !.value = v, !.okCalls = @ + 1]
resolve(p, v) ==
    IF p.state = "pending"
    THEN [p EXCEPT !.state = "resolved", !.value = v, !.okCalls = @ + 1]
    ELSE p

\* reject(): settles a pending handle and runs its failure continuation.
\* (the mutant settles whatever the state)
reject_unguarded(p) ==
    [p EXCEPT !.state = "rejected", !.failCalls = @ + 1]
reject(p) ==
    IF p.state = "pending"
    THEN [p EXCEPT !.state = "rejected", !.failCalls = @ + 1]
    ELSE p

\* cancel(): pending -> canceled; the transport is aborted through the hook
\* the executor handed over, when it handed one over.
cancelPromise(p) ==
    IF p.state = "pending"
    THEN [p EXCEPT !.state = "canceled",
                   !.cancelledEarly = (p.transport = "inflight"),
                   !.transport = IF p.abortHook = "none" THEN @ ELSE "aborted"]
    ELSE p

(***************************************************************************)
(* BingMapsProvider.fetchTile                                              *)
(***************************************************************************)
\* The string assigned to image.src, as the pieces the code concatenates
\* (the literal '.jpeg?g=1173' is cut at the extension).
tileUrl(sub, ty, key) ==
    <<"http://ecn.", sub, ".tiles.virtualearth.net/tiles/", ty>>
      \o key \o <<".", "jpeg", "?g=1173">>

\* The calls made so far.
Created == {h \in Handles : handles[h].created}

\* `const image = document.createElement('img')`: the element that the
\* closures of call h hold, named by the call's number.
\* (the mutant keeps one element for all calls: the one created last)
sharedImage(h) == CHOOSE m \in Created : \A n \in Created : n <= m
closureImage(h) == h

\* The executor given to the CancelablePromise: it creates the image, sets
\* the two event handlers and crossOrigin, and assigns src, which starts
\* the load. It hands the promise nothing to abort the load with.
executor(t) ==
    [NoHandle EXCEPT
        !.created = TRUE,
        !.tile = t,
        !.image = [src |-> tileUrl(subdomain, type, quadKey(t[1], t[2], t[3])),
                   crossOrigin |-> "Anonymous"],
        !.transport = "inflight",
        !.loads = 1,
        !.abortHook = "none",
        !.state = "pending"]

\* fetchTile(zoom, x, y): call number h, on tile t.
fetchTile(h, t) ==
    /\ ~handles[h].created
    /\ \A n \in Handles : n < h => handles[n].created
    /\ handles' = [handles EXCEPT ![h] = executor(t)]
    /\ UNCHANGED <<qvars, pvars>>

\* image.onload of call h: the load started in the call completes.
image_onload(h) ==
    /\ handles[h].transport = "inflight"
    /\ handles' = [handles EXCEPT
          ![h] = resolve([@ EXCEPT !.transport = "loaded"], closureImage(h))]
    /\ UNCHANGED <<qvars, pvars>>

\* image.onerror of call h: the load started in the call fails.
\* (the mutant calls resolve(image))
image_onerror_resolves(h) ==
    /\ handles[h].transport = "inflight"
    /\ handles' = [handles EXCEPT
          ![h] = resolve([@ EXCEPT !.transport = "errored"], closureImage(h))]
    /\ UNCHANGED <<qvars, pvars>>
image_onerror(h) ==
    /\ handles[h].transport = "inflight"
    /\ handles' = [handles EXCEPT
          ![h] = reject([@ EXCEPT !.transport = "errored"])]
    /\ UNCHANGED <<qvars, pvars>>

\* The caller cancels the handle call h returned.
cancel(h) ==
    /\ handles[h].created
    /\ handles' = [handles EXCEPT ![h] = cancelPromise(@)]
    /\ UNCHANGED <<qvars, pvars>>

\* The caller assigns the public field format.
SetFormat(f) ==
    /\ format # f
    /\ format' = f
    /\ UNCHANGED <<qvars, type, subdomain, handles>>

\* The caller assigns the public field subdomain.
SetSubdomain(s) ==
    /\ subdomain # s
    /\ subdomain' = s
    /\ UNCHANGED <<qvars, type, format, handles>>

(***************************************************************************)
(* Specifications                                                          *)
(***************************************************************************)
\* No quadKey call stepped through.
QuadKeyIdle ==
    /\ zoom = 0 /\ x = {} /\ y = {} /\ i = 0 /\ quad = <<>> /\ pc = "idle"

\* The provider after construction, no tile fetched yet.
Init ==
    /\ QuadKeyIdle
    /\ \E t \in ConstructorArgs : constructor(t)
    /\ handles = [h \in Handles |-> NoHandle]

Next ==
    \/ \E h \in Handles, t \in FetchTiles : fetchTile(h, t)
    \/ \E h \in Handles : image_onload(h)
    \/ \E h \in Handles : image_onerror(h)
    \/ \E h \in Handles : cancel(h)
    \/ \E f \in Formats : SetFormat(f)
    \/ \E s \in Subdomains : SetSubdomain(s)

Spec == Init /\ [][Next]_vars

\* quadKey run on every bounded input, on a default provider.
InitQuadKey ==
    /\ QuadKeyInit
    /\ constructor("undefined")
    /\ handles = [h \in Handles |-> NoHandle]

NextQuadKey == LoopStep \/ LoopExit

SpecQuadKey == InitQuadKey /\ [][NextQuadKey]_vars

\* The loop is not suspended: quadKey is synchronous code.
SpecQuadKeyFair == SpecQuadKey /\ WF_vars(NextQuadKey)

(***************************************************************************)
(* Properties of quadKey (specifications SpecQuadKey, SpecQuadKeyFair)     *)
(***************************************************************************)
\* Bit b of the number v, and the digit that bit b of x and of y make.
BitOf(v, b) == IF b \in v THEN 1 ELSE 0
DigitOfBits(b, cx, cy) == NumberToString(BitOf(cx, b) + 2 * BitOf(cy, b))

\* The digits of the returned string follow the bits of x and y, most
\* significant first: digit k is made of bit zoom - k.
DigitsFollowBits ==
    /\ Len(quad) >= zoom
    /\ \A k \in 1 .. zoom : quad[k] = DigitOfBits(zoom - k, x, y)

\* C1 as stated: for every zoom z >= 0 and all 0 <= x, y < 2^z, digit k of
\* quadKey(z, x, y) is 0, 1, 2 or 3 according to bit z - k of x and of y.
C1_DigitsFollowBits_AnyZoom == pc = "done" => DigitsFollowBits

\* C1 amended: for every zoom z with 0 <= z <= 32 and all 0 <= x, y < 2^z,
\* digit k of quadKey(z, x, y) is 0, 1, 2 or 3 according to bit z - k of x
\* and of y.
C1_DigitsFollowBits_WordZoom ==
    (pc = "done" /\ zoom <= WordBits) => DigitsFollowBits

\* quadKey has returned for zoom 32 with bit 31 set in x only: digit 1 is "1".
C1_Witness ==
    /\ pc = "done"
    /\ zoom = WordBits
    /\ 31 \in x /\ 31 \notin y /\ 0 \in y
    /\ quad[1] = "1"

\* C2: for every zoom z >= 0 and all 0 <= x, y < 2^z, quadKey terminates
\* and returns a string of exactly z characters, each one of 0, 1, 2, 3
\* (the empty string for z = 0).
C2_TerminatesWithZoomDigits ==
    /\ <>(pc = "done")
    /\ [](pc = "done" =>
            /\ Len(quad) = zoom
            /\ \A k \in 1 .. Len(quad) : quad[k] \in {"0", "1", "2", "3"})

\* quadKey has returned a string for a zoom beyond the word width, on
\* coordinates that are not zero.
C2_Witness ==
    /\ pc = "done"
    /\ zoom > WordBits
    /\ x # {} /\ y # {}
    /\ Len(quad) = zoom

\* 2 * v + a on bit-position sets, a in {0, 1}.
Child(v, a) == {b + 1 : b \in v} \cup (IF a = 1 THEN {0} ELSE {})

\* The key of each of the four children of tile (zoom, x, y) is the key
\* returned for the tile followed by the digit a + 2b.
ChildrenExtendParent ==
    \A a, b \in {0, 1} :
        quadKey(zoom + 1, Child(x, a), Child(y, b))
            = quad \o <<NumberToString(a + 2 * b)>>

\* C9 as stated: for every zoom z >= 0, quadKey(z+1, 2x+a, 2y+b) is
\* quadKey(z, x, y) followed by the digit a + 2b.
C9_ChildrenExtendParent_AnyZoom == pc = "done" => ChildrenExtendParent

\* C9 amended: for every zoom z with 0 <= z and z + 1 <= 32,
\* quadKey(z+1, 2x+a, 2y+b) is quadKey(z, x, y) followed by the digit a + 2b.
C9_ChildrenExtendParent_WordZoom ==
    (pc = "done" /\ zoom + 1 <= WordBits) => ChildrenExtendParent

\* quadKey has returned for a tile of zoom 31 whose children have bit 31 set.
C9_Witness ==
    /\ pc = "done"
    /\ zoom = WordBits - 1
    /\ 30 \in x /\ 30 \in y
    /\ Len(quad) = zoom

\* No other tile address of the same zoom has the key returned for (x, y).
KeyIsOwn ==
    \A x2, y2 \in Coords(zoom) :
        quadKey(zoom, x2, y2) = quad => (x2 = x /\ y2 = y)

\* C10 as stated: at every zoom z, quadKey(z, x1, y1) = quadKey(z, x2, y2)
\* implies x1 = x2 and y1 = y2.
C10_Injective_AnyZoom == pc = "done" => KeyIsOwn

\* C10 amended: at every zoom z with 0 <= z <= 32, quadKey(z, x1, y1) =
\* quadKey(z, x2, y2) implies x1 = x2 and y1 = y2.
C10_Injective_WordZoom == (pc = "done" /\ zoom <= WordBits) => KeyIsOwn

\* quadKey has returned for zoom 32 on a tile other tiles differ from in
\* bit 31 only.
C10_Witness ==
    /\ pc = "done"
    /\ zoom = WordBits
    /\ x = {31} /\ y = {0, 31}

(***************************************************************************)
(* Properties of fetchTile (specification Spec)                            *)
(***************************************************************************)
\* C3: a handle cancelled before its image load completed never has its
\* success or its failure continuation invoked, also when the image's load
\* or error event fires afterwards.
C3_NoContinuationAfterCancel ==
    \A h \in Handles :
        handles[h].cancelledEarly =>
            (handles[h].okCalls = 0 /\ handles[h].failCalls = 0)

\* A handle was cancelled while its load was in flight, and the load event
\* fired after that.
C3_Witness ==
    \E h \in Handles :
        /\ handles[h].cancelledEarly
        /\ handles[h].transport = "loaded"
        /\ handles[h].okCalls = 0

\* C4: after the handle of a pending fetch is cancelled, the image request
\* fetchTile started is no longer in flight.
C4_CancelReleasesTransport ==
    \A h \in Handles :
        handles[h].state = "canceled" => handles[h].transport # "inflight"

\* C5: when the image load of a handle that was not cancelled reports an
\* error, the handle is failed, its failure continuation has run exactly
\* once, its success continuation never, and the call started one image
\* load only.
C5_ErrorFailsOnceNoRetry ==
    \A h \in Handles :
        (handles[h].transport = "errored" /\ ~handles[h].cancelledEarly) =>
            /\ handles[h].state = "rejected"
            /\ handles[h].failCalls = 1
            /\ handles[h].okCalls = 0
            /\ handles[h].loads = 1

\* The error event fired on a handle that was never cancelled.
C5_Witness ==
    \E h \in Handles :
        /\ handles[h].transport = "errored"
        /\ ~handles[h].cancelledEarly
        /\ handles[h].state = "rejected"

\* The key part of a URL tileUrl built.
UrlKey(u) == SubSeq(u, 5, Len(u) - 3)

\* A resolved handle holds the image element its own call created, whose
\* src carries the key of the call's own tile.
ResolvedWithOwnImage ==
    \A h \in Handles :
        handles[h].state = "resolved" =>
            /\ handles[h].value = h
            /\ UrlKey(handles[handles[h].value].image.src)
                 = quadKey(handles[h].tile[1], handles[h].tile[2], handles[h].tile[3])

\* A step changes the record of one call at most.
OneHandlePerStep ==
    \A h1, h2 \in Handles :
        h1 # h2 => (handles'[h1] = handles[h1] \/ handles'[h2] = handles[h2])

\* C6: of two fetches in flight together, each resolves only with the image
\* whose URL was built from its own tile address, and no load, error or
\* cancel of one changes the state or result of the other.
C6_FetchesIndependent ==
    /\ []ResolvedWithOwnImage
    /\ [][OneHandlePerStep]_vars

\* Two fetches of different tiles: the second made is resolved while the
\* first is still in flight.
C6_Witness ==
    /\ handles[1].created /\ handles[2].created
    /\ handles[1].tile # handles[2].tile
    /\ handles[2].state = "resolved"
    /\ handles[1].transport = "inflight" /\ handles[1].state = "pending"

\* The URL the template gives with the format field as the extension.
TemplateUrl(sub, ty, key, fmt) ==
    <<"http://ecn.", sub, ".tiles.virtualearth.net/tiles/", ty>>
      \o key \o <<".", fmt, "?g=1173">>

\* C7: the URL a fetchTile call requests is the template filled with the
\* provider's subdomain, type and format at the call and the tile's key.
C7_UrlUsesAllFields ==
    [][\A h \in Handles :
          (~handles[h].created /\ handles'[h].created) =>
              handles'[h].image.src =
                  TemplateUrl(subdomain, type,
                              quadKey(handles'[h].tile[1], handles'[h].tile[2],
                                      handles'[h].tile[3]),
                              format)]_vars

Settled == {"resolved", "rejected", "canceled"}

\* C8: a handle that is resolved, rejected or canceled never changes state
\* again, and a handle cancelled while its load was in flight is canceled
\* for good.
C8_SettlesOnceCancelWins ==
    /\ [][\A h \in Handles :
            handles[h].state \in Settled =>
                handles'[h].state = handles[h].state]_vars
    /\ [](\A h \in Handles :
            handles[h].cancelledEarly => handles[h].state = "canceled")

\* A handle cancelled while its load was in flight stays canceled after the
\* error event of that load.
C8_Witness ==
    \E h \in Handles :
        /\ handles[h].cancelledEarly
        /\ handles[h].transport = "errored"
        /\ handles[h].state = "canceled"

=============================================================================
